---- MODULE Spec2Model ----
(***************************************************************************)
(* SCM10 temperature monitor: the monitoring session of MainWindow         *)
(* (scm10_monitor/main_window.py) with its collaborators DataLogger        *)
(* (logger.py), AlarmManager (alarm.py), the instrument connections        *)
(* (comms.py) and parse_temperature (protocol.py).                         *)
(*                                                                         *)
(* All slots of MainWindow run on the Qt GUI thread: a slot runs to        *)
(* completion before the event loop delivers the next event.  The only     *)
(* place where a slot blocks is connection.query inside                    *)
(* _poll_temperature; the model splits the handler there, so that the      *)
(* timer can expire while a query is outstanding.                          *)
(***************************************************************************)
EXTENDS Integers, Sequences, FiniteSets, TLC

\* ---------------------------------------------------------------- bounds
MaxTime == 2

\* Notification threads that may be running at the same time.
MaxSends == 2

\* Last second of the wall clock when AlarmManager is driven on its own.
MaxAlarmTime == 61

\* Longest terminator text given to encode_terminator / decode_terminator.
MaxTermLen == 3

\* Longest response text given to parse_temperature on its own.
MaxRespLen == 5

\* Most bytes the instrument sends in answer to one query.
MaxBytes == 4

\* Last second of the runs that follow the period of the read timer.
MaxTimerTime == 5

\* Samples of one session, and the largest max_points, of the buffer runs.
MaxSamples == 4
MaxRingPoints == 2

\* Python's None for the optional float fields (start_time, _last_email_ts).
NoneVal == -1

\* datetime.now() and time.monotonic() count seconds; 60 seconds a minute.
SecondsPerMinute == 60

\* settings["readout"]["period_s"], the interval of read_timer
PeriodSeconds == 1

\* settings["readout"]["max_points"]: the default 0, and a cap of one sample
MaxPointsChoices == {0, 1}

VARIABLES
    gui,             \* GUI thread: "idle", or "query" (blocked in connection.query)
    reading_active,  \* MainWindow.reading_active
    timerActive,     \* read_timer.isActive()
    tickDue,         \* read_timer has expired and its timeout is not yet delivered
    connection,      \* MainWindow.connection: "None", "serial" or "ethernet"
    handle,          \* _serial / _sock of that connection: "none", "open", "closed"
    logger,          \* MainWindow.logger: "None" or "obj"
    log_handle,      \* DataLogger._handle: name of the open file, or NoneVal
    files,           \* the log folder: file name (start second) -> lines
    start_time,      \* MainWindow.start_time
    time_data,       \* MainWindow.time_data
    temp_data,       \* MainWindow.temp_data
    max_points,      \* settings["readout"]["max_points"]
    read_period,     \* read_period.value(), in seconds
    interval,        \* read_timer.interval(), in seconds
    deadline,        \* when read_timer expires next (timer runs), else NoneVal
    in_buffer,       \* bytes received by the port or socket and not read yet
    in_alarm,        \* AlarmManager._in_alarm
    last_email_ts,   \* AlarmManager._last_email_ts
    status,          \* the last status bar message
    mono,            \* time.monotonic()
    wall,            \* time.time() / datetime.now(), in seconds
    inflight,        \* number of connection.query calls of the session in progress
    sends,           \* notification threads started by _send_email_async, still running
    accepted,        \* samples query and parse produced since _start_reading
    last_call,       \* arguments of AlarmManager.evaluate, if the last step called it
    arg,             \* arguments of the last call of a transport method or text function
    result,          \* what that call returned or raised
    op,              \* the last step: the handler called and what failed under it
    trace,           \* what that handler did, in program order
    stopped          \* _stop_reading has returned and _start_reading was not called since

vars == <<gui, reading_active, timerActive, tickDue, connection, handle, logger,
          log_handle, files, start_time, time_data, temp_data, max_points,
          read_period, interval, deadline, in_buffer,
          in_alarm, last_email_ts, status, mono, wall, inflight, sends, accepted,
          last_call, arg, result, op, trace, stopped>>

\* ------------------------------------------------------------ protocol.py
Digits == {"1", "2"}
Blank == " "

\* Characters str.strip() removes, among those the model writes.
Whitespace == {Blank, "LF", "CR", "TAB"}

SignChars == {"-", "+"}
ExpChars == {"e", "E"}

DigitVal(c) == IF c = "1" THEN 1 ELSE 2

RECURSIVE lstrip(_)
lstrip(s) ==
    IF s # <<>> /\ Head(s) \in Whitespace THEN lstrip(Tail(s)) ELSE s

RECURSIVE rstrip(_)
rstrip(s) ==
    IF s # <<>> /\ s[Len(s)] \in Whitespace
    THEN rstrip(SubSeq(s, 1, Len(s) - 1)) ELSE s

strip(s) == rstrip(lstrip(s))

IsDigitAt(s, i) == i <= Len(s) /\ s[i] \in Digits

\* \d+ is greedy: the position after the run of digits that starts at i
\* (i itself when there is no digit at i).
RECURSIVE DigitsEnd(_, _)
DigitsEnd(s, i) == IF IsDigitAt(s, i) THEN DigitsEnd(s, i + 1) ELSE i

\* Value of the digits of s from position i on, given the value acc of the
\* digits already read.
RECURSIVE DigitRun(_, _, _)
DigitRun(s, i, acc) ==
    IF i > Len(s) \/ s[i] \notin Digits THEN acc
    ELSE DigitRun(s, i + 1, 10 * acc + DigitVal(s[i]))

\* (?:\.\d+)? after the integer digits that end before b
frac_end(s, b) ==
    IF b <= Len(s) /\ s[b] = "." /\ IsDigitAt(s, b + 1)
    THEN DigitsEnd(s, b + 1) ELSE b

\* (?:[eE][-+]?\d+)? at position c
exp_end(s, c) ==
    IF c <= Len(s) /\ s[c] \in ExpChars
    THEN LET k == IF c + 1 <= Len(s) /\ s[c + 1] \in SignChars THEN c + 2 ELSE c + 1
         IN  IF IsDigitAt(s, k) THEN DigitsEnd(s, k) ELSE c
    ELSE c

match_end_unsigned(s, i) ==
    LET b == DigitsEnd(s, i)
    IN  IF b = i THEN 0 ELSE exp_end(s, frac_end(s, b))

\* The pattern [-+]?\d+(?:\.\d+)?(?:[eE][-+]?\d+)? tried at position i: the
\* position after the match, 0 when it does not match there.
match_end(s, i) ==
    LET a == IF i <= Len(s) /\ s[i] \in SignChars THEN i + 1 ELSE i
        b == DigitsEnd(s, a)
    IN  IF b = a THEN 0 ELSE exp_end(s, frac_end(s, b))

\* re.search: the match at the leftmost position where the pattern matches.
RECURSIVE search(_, _)
search(s, i) ==
    IF i > Len(s) THEN [found |-> FALSE, token |-> <<>>]
    ELSE IF match_end(s, i) # 0
    THEN [found |-> TRUE, token |-> SubSeq(s, i, match_end(s, i) - 1)]
    ELSE search(s, i + 1)

\* The number m * 10^e for a mantissa m that does not end in 0; it is the
\* integer m when e = 0.
Number(m, e) == IF e = 0 THEN m ELSE [m |-> m, e |-> e]

\* float(token) for a token the pattern matched
float(token) ==
    LET a == IF token[1] \in SignChars THEN 2 ELSE 1
        b == DigitsEnd(token, a)
        c == frac_end(token, b)
        d == exp_end(token, c)
        sign == IF token[1] = "-" THEN -1 ELSE 1
        frac == IF c > b THEN SubSeq(token, b + 1, c - 1) ELSE <<>>
        k == IF d > c /\ token[c + 1] \in SignChars THEN c + 2 ELSE c + 1
        esign == IF d > c /\ token[c + 1] = "-" THEN -1 ELSE 1
        exp == IF d > c THEN esign * DigitRun(token, k, 0) ELSE 0
    IN  Number(sign * DigitRun(SubSeq(token, a, b - 1) \o frac, 1, 0),
               exp - Len(frac))

\* parse_temperature: [ok |-> FALSE] stands for the ValueError.
parse_temperature(response) ==
    LET text == strip(response)
        match == search(text, 1)
    IN  IF text = <<>> THEN [ok |-> FALSE, value |-> 0]
        ELSE IF ~match.found THEN [ok |-> FALSE, value |-> 0]
        ELSE [ok |-> TRUE, value |-> float(match.token)]

\* --------------------------------------------------------------- alarm.py
\* The alarm widgets are read at every poll (main_window.py 547-556).
LowThresholds == {2}
HighThresholds == {1}
Intervals == {1}

AlarmSettings ==
    [enabled : BOOLEAN, low_enabled : BOOLEAN, low_threshold : LowThresholds,
     high_enabled : BOOLEAN, high_threshold : HighThresholds,
     beep_enabled : BOOLEAN, email_enabled : BOOLEAN,
     email_min_interval_min : Intervals]

Max(a, b) == IF a >= b THEN a ELSE b

is_low_or_equal(temperature, settings) ==
    settings.low_enabled /\ temperature <= settings.low_threshold

\* evaluate, line 47
is_low(temperature, settings) ==
    settings.low_enabled /\ temperature < settings.low_threshold

\* evaluate, line 48
is_high(temperature, settings) ==
    settings.high_enabled /\ temperature > settings.high_threshold

min_interval_unfloored(settings) ==
    settings.email_min_interval_min * SecondsPerMinute

\* evaluate, line 56
min_interval(settings) == Max(1, settings.email_min_interval_min) * SecondsPerMinute

email_due_either_way(ts, now, settings) ==
    \/ ts = NoneVal
    \/ (now - ts) >= min_interval(settings)
    \/ (ts - now) >= min_interval(settings)

\* evaluate, line 57: no notification was sent yet, or the last one is at
\* least min_interval old on the clock read at this call.
email_due(ts, now, settings) ==
    ts = NoneVal \/ (now - ts) >= min_interval(settings)

email_status_high_first(low, high) == IF high THEN "HIGH" ELSE "LOW"

\* _send_email_async, line 78: the status word of the message body
email_status(low, high) == IF low THEN "LOW" ELSE "HIGH"

evaluate_disabled_keeps_alarm(ts) ==
    [in_alarm |-> in_alarm, last_email_ts |-> ts, fx |-> <<>>]

\* evaluate, lines 43-45: alarms are switched off.
evaluate_disabled(ts) == [in_alarm |-> FALSE, last_email_ts |-> ts, fx |-> <<>>]

\* AlarmManager.evaluate: the alarm state after the call and the side
\* channels it triggered ("beep" = _beep, "send" = _send_email_async, followed
\* by the status word of the message).
\* email_config is TRUE when an EmailConfig object is passed.
evaluate(temperature, settings, email_config, now, ts) ==
    IF ~settings.enabled
    THEN evaluate_disabled(ts)
    ELSE
      LET alarm == is_low(temperature, settings) \/ is_high(temperature, settings)
          beep == IF alarm /\ settings.beep_enabled THEN <<"beep">> ELSE <<>>
          send == /\ alarm /\ settings.email_enabled /\ email_config
                  /\ email_due(ts, now, settings)
      IN  [in_alarm |-> alarm,
           last_email_ts |-> IF send THEN now ELSE ts,
           fx |-> beep \o (IF send
                           THEN <<"send", email_status(is_low(temperature, settings),
                                                       is_high(temperature, settings))>>
                           ELSE <<>>)]

\* What the last step passed to evaluate; NoCall when it did not call it.
NoCall == [called |-> FALSE]
Call(temperature, settings, email_config, now) ==
    [called |-> TRUE, temperature |-> temperature, settings |-> settings,
     email_config |-> email_config, now |-> now]

\* The widget settings the session model draws at each poll.
SessionSettings ==
    {s \in AlarmSettings : s.low_enabled /\ ~s.high_enabled /\ ~s.beep_enabled}

\* AlarmManager.reset
reset == [in_alarm |-> FALSE, last_email_ts |-> NoneVal]

\* -------------------------------------------------------------- logger.py
Seconds == 1..MaxTime

Header == [kind |-> "header", ts |-> 0, elapsed |-> 0, temp |-> 0]
Row(ts, elapsed, temp) == [kind |-> "row", ts |-> ts, elapsed |-> elapsed, temp |-> temp]

LoggerStartAppends == [files EXCEPT ![wall] = @ \o <<Header>>]

\* DataLogger.start when mkdir and open succeed: the file named by the
\* current second is opened with mode "w" and the header is written.
LoggerStartFiles == [files EXCEPT ![wall] = <<Header>>]

\* DataLogger.log when the write succeeds: one row, flushed.
LoggerLogFiles(ts, elapsed, temp) ==
    [files EXCEPT ![log_handle] = Append(@, Row(ts, elapsed, temp))]

\* ---------------------------------------------------------------- comms.py
ConnectionTypes == {"serial", "ethernet"}

\* What the instrument's reply can look like once read and decoded.
Responses ==
    {<<>>, <<" ">>, <<"T">>, <<"T", "1">>, <<"1", " ">>}

\* The ways connection.query can end: an exception, or a response.
QueryOutcomes ==
    {[raised |-> TRUE, response |-> <<>>]}
        \cup {[raised |-> FALSE, response |-> r] : r \in Responses}

\* SerialConnection.query / EthernetConnection.query raise when the
\* connection holds no usable handle (RuntimeError, or pyserial's
\* port-not-open error on a closed Serial object).
QueryRaises(outcome) == handle # "open" \/ outcome.raised

\* _serial / _sock after a close() that did not raise.
HandleAfterClose ==
    IF handle # "open" THEN handle
    ELSE IF connection = "serial" THEN "closed" ELSE "none"

\* _serial / _sock after a close() that raised: EthernetConnection.close
\* clears _sock in its finally clause; SerialConnection.close leaves the
\* Serial object in whatever state the failed close left it.
HandleAfterFailedClose(leftOpen) ==
    IF connection = "serial" THEN (IF leftOpen THEN "open" ELSE "closed") ELSE "none"

\* ---------------------------------------------------------- main_window.py
FirstN(x, n) ==
    IF n = 0 \/ n >= Len(x) THEN x ELSE SubSeq(x, 1, n)

\* Python's x[-n:] : the last n elements, and all of x when n = 0.
LastN(x, n) ==
    IF n = 0 \/ n >= Len(x) THEN x ELSE SubSeq(x, Len(x) - n + 1, Len(x))

\* The event loop runs a slot only when no other slot is running.
GuiFree == gui = "idle"

TimerDeliversAnywhere == timerActive /\ tickDue

\* read_timer.timeout is delivered on the GUI thread (QTimer(self)).
TimerDelivers == GuiFree /\ timerActive /\ tickDue

\* _poll_temperature up to the call of connection.query.
PollBegin(conn) ==
    IF conn = "None"
    THEN UNCHANGED <<gui, inflight>>
    ELSE /\ gui' = "query"
         /\ inflight' = inflight + 1

\* A start that empties the buffers of the session under way.
StartNoopClearsBuffers ==
    /\ trace' = <<>>
    /\ time_data' = <<>>
    /\ temp_data' = <<>>
    /\ UNCHANGED <<gui, reading_active, timerActive, tickDue, connection, handle,
                   logger, log_handle, files, start_time, status, inflight,
                   stopped>>

\* _start_reading, line 461: already reading.
StartNoop ==
    /\ trace' = <<>>
    /\ UNCHANGED <<gui, reading_active, timerActive, tickDue, connection, handle,
                   logger, log_handle, files, start_time, time_data, temp_data,
                   status, inflight, stopped>>

\* A start that leaves the first read to the timer.
StartSessionWithoutPoll(ctype, h) ==
    /\ connection' = ctype
    /\ handle' = h
    /\ logger' = "obj"
    /\ log_handle' = wall
    /\ files' = LoggerStartFiles
    /\ start_time' = mono
    /\ time_data' = <<>>
    /\ temp_data' = <<>>
    /\ reading_active' = TRUE
    /\ timerActive' = TRUE
    /\ tickDue' = FALSE
    /\ status' = "Reading started"
    /\ stopped' = FALSE
    /\ trace' = <<"open", "logger_start", "buffer_reset", "timer_start">>
    /\ UNCHANGED <<gui, inflight>>

\* _start_reading from the successful open() on: the logger is started, the
\* buffers are reset, the timer is started and one read is primed.
StartSession(ctype, h) ==
    /\ connection' = ctype
    /\ handle' = h
    /\ logger' = "obj"
    /\ log_handle' = wall
    /\ files' = LoggerStartFiles
    /\ start_time' = mono
    /\ time_data' = <<>>
    /\ temp_data' = <<>>
    /\ reading_active' = TRUE
    /\ timerActive' = TRUE
    /\ tickDue' = FALSE
    /\ status' = "Reading started"
    /\ stopped' = FALSE
    /\ trace' = <<"open", "logger_start", "buffer_reset", "timer_start", "poll">>
    /\ PollBegin(ctype)

StartOpenFailedNoReturn(ctype) == StartSession(ctype, "none")

\* _start_reading, lines 465-472: connection.open() raised.
StartOpenFailed(ctype) ==
    /\ connection' = ctype
    /\ handle' = "none"
    /\ status' = "Failed to open connection"
    /\ trace' = <<>>
    /\ UNCHANGED <<gui, reading_active, timerActive, tickDue, logger, log_handle,
                   files, start_time, time_data, temp_data, inflight, stopped>>

\* _start_reading, lines 479-480: DataLogger.start raised (mkdir or open
\* failed); the exception leaves the slot.
StartLoggerFailed(ctype) ==
    /\ connection' = ctype
    /\ handle' = "open"
    /\ logger' = "obj"
    /\ log_handle' = NoneVal
    /\ trace' = <<"open">>
    /\ UNCHANGED <<gui, reading_active, timerActive, tickDue, files, start_time,
                   time_data, temp_data, status, inflight, stopped>>

StartReading(ctype, openOk, logOk) ==
    /\ GuiFree
    /\ IF reading_active THEN StartNoop
       ELSE IF ~openOk THEN StartOpenFailed(ctype)
       ELSE IF ~logOk THEN StartLoggerFailed(ctype)
       ELSE StartSession(ctype, "open")
    /\ op' = (IF reading_active THEN "start_noop"
               ELSE IF ~openOk THEN "start_open_failed"
               ELSE IF ~logOk THEN "start_logger_failed"
               ELSE "start")
    /\ accepted' = (IF ~reading_active /\ openOk /\ logOk THEN <<>> ELSE accepted)
    /\ last_call' = NoCall
    /\ UNCHANGED <<max_points, read_period, interval, deadline, in_buffer,
                   in_alarm, last_email_ts, mono, wall, sends, arg,
                   result>>

\* read_timer.timeout -> _poll_temperature
TimerTick ==
    /\ TimerDelivers
    /\ tickDue' = FALSE
    /\ trace' = <<>>
    /\ op' = "tick"
    /\ PollBegin(connection)
    /\ UNCHANGED <<reading_active, timerActive, connection, handle, logger,
                   log_handle, files, start_time, time_data, temp_data, max_points,
                   read_period, interval, deadline, in_buffer,
                   in_alarm, last_email_ts, status, mono, wall, sends, accepted,
                   arg, result, stopped>>
    /\ last_call' = NoCall

PollFailedStopsReading ==
    /\ gui' = "idle"
    /\ status' = "Read failed"
    /\ reading_active' = FALSE
    /\ timerActive' = FALSE
    /\ tickDue' = FALSE
    /\ trace' = <<>>
    /\ UNCHANGED <<connection, handle, logger, log_handle, files, time_data,
                   temp_data, in_alarm, last_email_ts, sends>>

\* _poll_temperature, lines 526-528: query or parse_temperature raised.
PollFailed ==
    /\ gui' = "idle"
    /\ status' = "Read failed"
    /\ trace' = <<>>
    /\ UNCHANGED <<reading_active, timerActive, tickDue, connection, handle, logger,
                   log_handle, files, time_data, temp_data, in_alarm, last_email_ts,
                   sends>>

\* _poll_temperature, line 530
Elapsed == IF start_time # NoneVal /\ start_time # 0 THEN mono - start_time ELSE 0

\* A poll that cuts only the series of elapsed times.
BufferSampleCutsTimesOnly(temperature) ==
    LET t == Append(time_data, Elapsed)
        v == Append(temp_data, temperature)
    IN  /\ time_data' = (IF Len(t) > max_points THEN LastN(t, max_points) ELSE t)
        /\ temp_data' = v

\* _poll_temperature, lines 533-539: the sample enters both series, which
\* are then cut to the last max_points entries.
BufferSample(temperature) ==
    LET t == Append(time_data, Elapsed)
        v == Append(temp_data, temperature)
    IN  /\ time_data' = (IF Len(t) > max_points THEN LastN(t, max_points) ELSE t)
        /\ temp_data' = (IF Len(t) > max_points THEN LastN(v, max_points) ELSE v)

\* DataLogger.log writes when the logger holds an open file.
LoggerWrites == logger # "None" /\ log_handle # NoneVal

PollLogRaisedStopsReading(temperature) ==
    /\ gui' = "idle"
    /\ BufferSample(temperature)
    /\ reading_active' = FALSE
    /\ timerActive' = FALSE
    /\ tickDue' = FALSE
    /\ trace' = <<"buffer", "log_raised">>
    /\ UNCHANGED <<connection, handle, logger, log_handle, files, in_alarm,
                   last_email_ts, status, sends>>

\* _poll_temperature, lines 530-545, when the write or flush in
\* DataLogger.log raises: the exception leaves the slot at line 545.
PollLogRaised(temperature) ==
    /\ gui' = "idle"
    /\ BufferSample(temperature)
    /\ trace' = <<"buffer", "log_raised">>
    /\ UNCHANGED <<reading_active, timerActive, tickDue, connection, handle, logger,
                   log_handle, files, in_alarm, last_email_ts, status, sends>>

\* The threads _send_email_async has running after a call of evaluate.
SendsAfter(fx) == IF "send" \in {fx[i] : i \in DOMAIN fx} THEN sends + 1 ELSE sends

GuiWaitsForSend(fx) == IF SendsAfter(fx) > 0 THEN "send" ELSE "idle"

\* Where the GUI thread is once evaluate has returned: _send_email_async
\* only starts a daemon thread, so the slot runs to its end.
GuiAfterEvaluate(fx) == "idle"

\* _poll_temperature, lines 530-567: buffer, log, alarm.
PollSample(temperature, settings) ==
    LET ev == evaluate(temperature, settings, TRUE, wall, last_email_ts)
    IN  /\ BufferSample(temperature)
        /\ sends' = SendsAfter(ev.fx)
        /\ gui' = GuiAfterEvaluate(ev.fx)
        /\ files' = (IF LoggerWrites
                     THEN LoggerLogFiles(wall, Elapsed, temperature) ELSE files)
        /\ in_alarm' = ev.in_alarm
        /\ last_email_ts' = ev.last_email_ts
        /\ trace' = <<"buffer">> \o (IF LoggerWrites THEN <<"log">> ELSE <<>>)
                        \o <<"evaluate">> \o ev.fx
        /\ UNCHANGED <<reading_active, timerActive, tickDue, connection, handle,
                       logger, log_handle, status>>

\* connection.query returns or raises, and _poll_temperature runs to its end.
QueryReturn(outcome, logOk, settings) ==
    /\ gui = "query"
    /\ inflight' = inflight - 1
    /\ LET parsed == parse_temperature(outcome.response)
       IN  IF QueryRaises(outcome) \/ ~parsed.ok THEN PollFailed
           ELSE IF LoggerWrites /\ ~logOk THEN PollLogRaised(parsed.value)
           ELSE PollSample(parsed.value, settings)
    /\ op' = (IF QueryRaises(outcome) \/ ~parse_temperature(outcome.response).ok
               THEN "poll_failed"
               ELSE IF LoggerWrites /\ ~logOk THEN "poll_log_raised"
               ELSE "poll_sample")
    /\ LET parsed == parse_temperature(outcome.response)
       IN  IF QueryRaises(outcome) \/ ~parsed.ok
           THEN accepted' = accepted /\ last_call' = NoCall
           ELSE /\ accepted' = Append(accepted,
                                     [ts |-> wall, elapsed |-> Elapsed,
                                      temp |-> parsed.value,
                                      written |-> ~(LoggerWrites /\ ~logOk)])
                /\ last_call' = (IF LoggerWrites /\ ~logOk THEN NoCall
                                 ELSE Call(parsed.value, settings, TRUE, wall))
    /\ sends' <= MaxSends
    /\ UNCHANGED <<start_time, max_points, read_period, interval, deadline,
                   in_buffer, mono, wall, arg, result, stopped>>

StopGuardAlways == TRUE

\* _stop_reading, line 501
StopGuard == reading_active

TimerLeftRunning == timerActive

\* read_timer.isActive() after read_timer.stop(), line 503
TimerAfterStop == FALSE

\* What read_timer.stop() does to the timer: it may cancel an expiry that was
\* not delivered yet.
TimerStopEffect == IF tickDue THEN "timer_stop_pending" ELSE "timer_stop"

\* _stop_reading, line 501: not reading.
StopNoop ==
    /\ trace' = <<>>
    /\ UNCHANGED <<reading_active, timerActive, tickDue, connection, handle, logger,
                   log_handle, in_alarm, last_email_ts, status, stopped>>

\* _stop_reading, lines 503-509, when connection.close() raises: the
\* exception leaves the slot at line 509.
StopConnectionCloseRaised(leftOpen) ==
    /\ timerActive' = TimerAfterStop
    /\ tickDue' = (TimerAfterStop /\ tickDue)
    /\ reading_active' = FALSE
    /\ handle' = HandleAfterFailedClose(leftOpen)
    /\ trace' = <<TimerStopEffect, "connection_close_raised">>
    /\ stopped' = TRUE
    /\ UNCHANGED <<connection, logger, log_handle, in_alarm, last_email_ts, status>>

\* _stop_reading, lines 503-513, when DataLogger.close raises: _handle is
\* cleared by the finally clause and the exception leaves the slot.
StopLoggerCloseRaised ==
    /\ timerActive' = TimerAfterStop
    /\ tickDue' = (TimerAfterStop /\ tickDue)
    /\ reading_active' = FALSE
    /\ handle' = (IF connection # "None" THEN HandleAfterClose ELSE handle)
    /\ connection' = "None"
    /\ log_handle' = NoneVal
    /\ trace' = <<TimerStopEffect, "connection_close", "logger_close_raised">>
    /\ stopped' = TRUE
    /\ UNCHANGED <<logger, in_alarm, last_email_ts, status>>

\* _stop_reading, lines 503-516, nothing raising.
StopDone ==
    /\ timerActive' = TimerAfterStop
    /\ tickDue' = (TimerAfterStop /\ tickDue)
    /\ reading_active' = FALSE
    /\ handle' = (IF connection # "None" THEN HandleAfterClose ELSE handle)
    /\ connection' = "None"
    /\ log_handle' = NoneVal
    /\ logger' = "None"
    /\ in_alarm' = reset.in_alarm
    /\ last_email_ts' = reset.last_email_ts
    /\ status' = "Reading stopped"
    /\ trace' = <<TimerStopEffect, "connection_close", "logger_close", "alarm_reset">>
    /\ stopped' = TRUE

StopReading(connCloseOk, leftOpen, logCloseOk) ==
    /\ GuiFree
    /\ IF ~StopGuard THEN StopNoop
       ELSE IF connection # "None" /\ handle = "open" /\ ~connCloseOk
            THEN StopConnectionCloseRaised(leftOpen)
       ELSE IF LoggerWrites /\ ~logCloseOk THEN StopLoggerCloseRaised
       ELSE StopDone
    /\ op' = (IF ~reading_active THEN "stop_idle"
               ELSE IF connection # "None" /\ handle = "open" /\ ~connCloseOk
                    THEN "stop_connection_close_raised"
               ELSE IF LoggerWrites /\ ~logCloseOk THEN "stop_logger_close_raised"
               ELSE "stop")
    /\ last_call' = NoCall
    /\ UNCHANGED <<gui, inflight, files, start_time, time_data, temp_data,
                   max_points, read_period, interval, deadline, in_buffer,
                   mono, wall, sends, accepted, arg, result>>

\* A second passes on both clocks; the read timer, whose interval is
\* PeriodSeconds, expires if it is running.
Advance ==
    /\ mono < MaxTime
    /\ mono' = mono + PeriodSeconds
    /\ wall' = wall + PeriodSeconds
    /\ tickDue' = (tickDue \/ timerActive)
    /\ op' = "advance"
    /\ trace' = <<>>
    /\ UNCHANGED <<gui, reading_active, timerActive, connection, handle,
                   logger, log_handle, files, start_time, time_data, temp_data,
                   max_points, read_period, interval, deadline, in_buffer,
                   in_alarm, last_email_ts, status, inflight, sends,
                   accepted, arg, result, stopped>>
    /\ last_call' = NoCall

\* A notification thread ends: EmailSender.send returned, or raised and the
\* exception ended the thread.
SendEnds(ok) ==
    /\ sends > 0
    /\ sends' = sends - 1
    /\ op' = (IF ok THEN "send_done" ELSE "send_failed")
    /\ trace' = <<>>
    /\ last_call' = NoCall
    /\ UNCHANGED <<gui, reading_active, timerActive, tickDue, connection, handle,
                   logger, log_handle, files, start_time, time_data, temp_data,
                   max_points, read_period, interval, deadline, in_buffer,
                   in_alarm, last_email_ts, status, mono, wall,
                   inflight, accepted, arg, result, stopped>>

\* MainWindow.__init__, apart from the settings it reads
IdleWindow ==
    /\ gui = "idle"
    /\ reading_active = FALSE
    /\ timerActive = FALSE
    /\ tickDue = FALSE
    /\ connection = "None"
    /\ handle = "none"
    /\ logger = "None"
    /\ log_handle = NoneVal
    /\ files = [n \in Seconds |-> <<>>]
    /\ start_time = NoneVal
    /\ time_data = <<>>
    /\ temp_data = <<>>
    /\ in_alarm = FALSE
    /\ last_email_ts = NoneVal
    /\ status = ""
    /\ mono = 1
    /\ wall = 1
    /\ inflight = 0
    /\ sends = 0
    /\ accepted = <<>>
    /\ last_call = NoCall
    /\ op = "init"
    /\ trace = <<>>
    /\ stopped = FALSE

\* MainWindow.__init__
Init ==
    /\ IdleWindow
    /\ max_points \in MaxPointsChoices
    /\ read_period = PeriodSeconds
    /\ interval = 0
    /\ deadline = NoneVal
    /\ in_buffer = <<>>
    /\ arg = NoCall
    /\ result = NoCall

Next ==
    \/ \E ctype \in ConnectionTypes, openOk \in BOOLEAN, logOk \in BOOLEAN :
           StartReading(ctype, openOk, logOk)
    \/ TimerTick
    \/ \E outcome \in QueryOutcomes, logOk \in BOOLEAN, settings \in SessionSettings :
           QueryReturn(outcome, logOk, settings)
    \/ \E connCloseOk \in BOOLEAN, leftOpen \in BOOLEAN, logCloseOk \in BOOLEAN :
           StopReading(connCloseOk, leftOpen, logCloseOk)
    \/ Advance
    \/ \E ok \in BOOLEAN : SendEnds(ok)

Spec == Init /\ [][Next]_vars

\* ------------------------------------------------- AlarmManager on its own
\* Calls of AlarmManager.evaluate and AlarmManager.reset in any order and
\* with any arguments, under a wall clock (time.time()) that moves between
\* the calls and can be set back.
ClockSteps == {30, 31, -61}
AlarmTemperatures == {1, 2}
AlarmIntervals == {0, 1, 2}

AlarmHighThresholds == {0, 1}

AlarmCallSettings ==
    [enabled : BOOLEAN, low_enabled : BOOLEAN, low_threshold : LowThresholds,
     high_enabled : BOOLEAN, high_threshold : AlarmHighThresholds,
     beep_enabled : {TRUE}, email_enabled : BOOLEAN,
     email_min_interval_min : AlarmIntervals]

\* emailer.py, EmailSender.send: how the sending thread ends, given whether
\* the configuration names an SMTP host and any recipient and whether the
\* SMTP conversation succeeds.
send(smtp_host, to_addrs, smtpOk) ==
    IF ~smtp_host THEN "ValueError"
    ELSE IF ~to_addrs THEN "ValueError"
    ELSE IF smtpOk THEN "sent" ELSE "SMTPException"

last_email_ts_unset_on_failure(ts, outcome) ==
    IF outcome = "sent" THEN ts ELSE NoneVal

\* _send_email_async, lines 76-83: the thread holds no reference to the
\* AlarmManager, whatever becomes of the message.
last_email_ts_after_send(ts, outcome) == ts

\* What AlarmManager never touches.
OutsideAlarm ==
    <<gui, reading_active, timerActive, tickDue, connection, handle, logger,
      log_handle, files, start_time, time_data, temp_data, max_points,
      read_period, interval, deadline, in_buffer,
      status,
      mono, inflight, accepted, arg, result, stopped>>

\* AlarmManager.evaluate, with time.time() = wall
AlarmEvaluate(temperature, settings, email_config) ==
    LET ev == evaluate(temperature, settings, email_config, wall, last_email_ts)
    IN  /\ in_alarm' = ev.in_alarm
        /\ last_email_ts' = ev.last_email_ts
        /\ sends' = SendsAfter(ev.fx)
        /\ sends' <= MaxSends
        /\ trace' = <<"evaluate">> \o ev.fx
        /\ op' = "evaluate"
        /\ last_call' = Call(temperature, settings, email_config, wall)
        /\ UNCHANGED wall
        /\ UNCHANGED OutsideAlarm

\* The thread started by _send_email_async ends.
SendThreadEnds(smtp_host, to_addrs, smtpOk) ==
    LET outcome == send(smtp_host, to_addrs, smtpOk)
    IN  /\ sends > 0
        /\ sends' = sends - 1
        /\ last_email_ts' = last_email_ts_after_send(last_email_ts, outcome)
        /\ op' = (IF outcome = "sent" THEN "send_done" ELSE "send_failed")
        /\ trace' = <<outcome>>
        /\ last_call' = NoCall
        /\ UNCHANGED <<wall, in_alarm>>
        /\ UNCHANGED OutsideAlarm

\* AlarmManager.reset
AlarmReset ==
    /\ in_alarm' = reset.in_alarm
    /\ last_email_ts' = reset.last_email_ts
    /\ trace' = <<"alarm_reset">>
    /\ op' = "reset"
    /\ last_call' = NoCall
    /\ UNCHANGED <<wall, sends>>
    /\ UNCHANGED OutsideAlarm

\* time.time() between two calls: it has moved on, or was set back.
ClockStep(d) ==
    /\ wall + d \in 0..MaxAlarmTime
    /\ wall' = wall + d
    /\ trace' = <<>>
    /\ op' = "clock"
    /\ last_call' = NoCall
    /\ UNCHANGED <<in_alarm, last_email_ts, sends>>
    /\ UNCHANGED OutsideAlarm

\* AlarmManager.__init__
InitAlarm == Init /\ max_points = 0

NextAlarm ==
    \/ \E temperature \in AlarmTemperatures, settings \in AlarmCallSettings :
           AlarmEvaluate(temperature, settings, TRUE)
    \/ AlarmReset
    \/ \E d \in ClockSteps : ClockStep(d)
    \/ \E smtp_host \in BOOLEAN, to_addrs \in BOOLEAN, smtpOk \in BOOLEAN :
           SendThreadEnds(smtp_host, to_addrs, smtpOk)

SpecAlarm == InitAlarm /\ [][NextAlarm]_vars

\* ------------------------------------------------ sessions of many samples
\* Sessions over one connection that opens and closes without error, with
\* the alarms switched off, any max_points up to MaxRingPoints, readings
\* that differ from poll to poll, and a read period so short that the whole
\* run passes within one second of the clocks.
RingResponses == {<<"1">>, <<"T", "2">>, <<"T">>}

RingOutcomes ==
    {[raised |-> TRUE, response |-> <<>>]}
        \cup {[raised |-> FALSE, response |-> r] : r \in RingResponses}

RingSettings == {s \in SessionSettings : ~s.enabled /\ ~s.email_enabled}

\* read_timer expires before the clocks reach the next second.
TimerExpire ==
    /\ timerActive /\ ~tickDue
    /\ Len(accepted) < MaxSamples
    /\ tickDue' = TRUE
    /\ op' = "expire"
    /\ trace' = <<>>
    /\ last_call' = NoCall
    /\ UNCHANGED <<gui, reading_active, timerActive, connection, handle, logger,
                   log_handle, files, start_time, time_data, temp_data, max_points,
                   read_period, interval, deadline, in_buffer,
                   in_alarm, last_email_ts, status, mono, wall, inflight, sends,
                   accepted, arg, result, stopped>>

\* MainWindow.__init__ with settings["readout"]["max_points"] as configured
InitRing ==
    /\ gui = "idle"
    /\ reading_active = FALSE
    /\ timerActive = FALSE
    /\ tickDue = FALSE
    /\ connection = "None"
    /\ handle = "none"
    /\ logger = "None"
    /\ log_handle = NoneVal
    /\ files = [n \in Seconds |-> <<>>]
    /\ start_time = NoneVal
    /\ time_data = <<>>
    /\ temp_data = <<>>
    /\ max_points \in 0..MaxRingPoints
    /\ read_period = PeriodSeconds
    /\ interval = 0
    /\ deadline = NoneVal
    /\ in_buffer = <<>>
    /\ in_alarm = FALSE
    /\ last_email_ts = NoneVal
    /\ status = ""
    /\ mono = 1
    /\ wall = 1
    /\ inflight = 0
    /\ sends = 0
    /\ accepted = <<>>
    /\ last_call = NoCall
    /\ arg = NoCall
    /\ result = NoCall
    /\ op = "init"
    /\ trace = <<>>
    /\ stopped = FALSE

NextRing ==
    \/ StartReading("ethernet", TRUE, TRUE)
    \/ TimerExpire
    \/ TimerTick
    \/ \E outcome \in RingOutcomes, logOk \in BOOLEAN, settings \in RingSettings :
           QueryReturn(outcome, logOk, settings)
    \/ StopReading(TRUE, TRUE, TRUE)

SpecRing == InitRing /\ [][NextRing]_vars

\* ------------------------------------------------------------ settings.py
\* Text is a sequence of characters; "CR", "LF", "TAB" and "BS" stand for
\* carriage return, line feed, tab and the backslash.
StringsUpTo(alphabet, n) == UNION {[1..k -> alphabet] : k \in 0..n}

\* str.replace(c, w) for a single character c
RECURSIVE Replace(_, _, _)
Replace(s, c, w) ==
    IF s = <<>> THEN <<>>
    ELSE (IF Head(s) = c THEN w ELSE <<Head(s)>>) \o Replace(Tail(s), c, w)

RECURSIVE Flatten(_)
Flatten(chunks) ==
    IF chunks = <<>> THEN <<>> ELSE Head(chunks) \o Flatten(Tail(chunks))

encode_terminator_keeps_backslash(value) ==
    Replace(Replace(Replace(value, "CR", <<"BS", "r">>),
                    "LF", <<"BS", "n">>),
            "TAB", <<"BS", "t">>)

encode_terminator_backslash_last(value) ==
    Replace(Replace(Replace(Replace(value, "CR", <<"BS", "r">>),
                            "LF", <<"BS", "n">>),
                    "TAB", <<"BS", "t">>),
            "BS", <<"BS", "BS">>)

\* encode_terminator: four replacements, the backslash first.
encode_terminator(value) ==
    Replace(Replace(Replace(Replace(value, "BS", <<"BS", "BS">>),
                            "CR", <<"BS", "r">>),
                    "LF", <<"BS", "n">>),
            "TAB", <<"BS", "t">>)

\* What the unicode_escape codec makes of a backslash followed by c, for the
\* characters of TermChars: a character, the two characters unchanged
\* (unknown escape), or an error (\x needs two hex digits).
EscapeOf(c) ==
    IF c = "BS" THEN [ok |-> TRUE, value |-> <<"BS">>]
    ELSE IF c = "n" THEN [ok |-> TRUE, value |-> <<"LF">>]
    ELSE IF c = "r" THEN [ok |-> TRUE, value |-> <<"CR">>]
    ELSE IF c = "t" THEN [ok |-> TRUE, value |-> <<"TAB">>]
    ELSE IF c = "x" THEN [ok |-> FALSE, value |-> <<>>]
    ELSE [ok |-> TRUE, value |-> <<"BS", c>>]

\* decode_terminator: value.encode("utf-8").decode("unicode_escape"), one
\* pass from the left; [ok |-> FALSE] stands for the UnicodeDecodeError (a
\* backslash at the end of the text, or a malformed escape).
RECURSIVE decode_terminator(_)
decode_terminator(value) ==
    IF value = <<>> THEN [ok |-> TRUE, value |-> <<>>]
    ELSE IF Head(value) # "BS"
    THEN LET rest == decode_terminator(Tail(value))
         IN  [ok |-> rest.ok, value |-> <<Head(value)>> \o rest.value]
    ELSE IF Len(value) = 1 THEN [ok |-> FALSE, value |-> <<>>]
    ELSE LET esc == EscapeOf(value[2])
             rest == decode_terminator(Tail(Tail(value)))
         IN  [ok |-> esc.ok /\ rest.ok, value |-> esc.value \o rest.value]

\* The characters of the terminator texts: the four escape classes, and
\* letters with (n, r, t, x) and without (q) a meaning after a backslash.
TermChars == {"CR", "LF", "TAB", "BS", "n", "r", "t", "x", "q"}

\* What the text functions never touch.
OutsideText ==
    <<gui, reading_active, timerActive, tickDue, connection, handle, logger,
      log_handle, files, start_time, time_data, temp_data, max_points,
      read_period, interval, deadline, in_buffer,
      in_alarm,
      last_email_ts, status, mono, wall, inflight, sends, accepted, last_call,
      stopped>>

TerminatorTexts == StringsUpTo(TermChars, MaxTermLen)

\* decode_terminator(encode_terminator(arg))
TerminatorRoundTrip ==
    /\ op = "init"
    /\ arg \in TerminatorTexts
    /\ result' = decode_terminator(encode_terminator(arg))
    /\ op' = "terminator_round_trip"
    /\ UNCHANGED <<arg, trace>>
    /\ UNCHANGED OutsideText

\* decode_terminator(arg) of a text as typed
TerminatorDecode ==
    /\ op = "init"
    /\ arg \in TerminatorTexts
    /\ result' = decode_terminator(arg)
    /\ op' = "decode_terminator"
    /\ UNCHANGED <<arg, trace>>
    /\ UNCHANGED OutsideText

\* The escaped terminator texts: up to MaxTermLen of the escapes \r, \n, \t
\* and \\ and of letters, in any order.
EscapedTokens ==
    {<<"BS", "r">>, <<"BS", "n">>, <<"BS", "t">>, <<"BS", "BS">>,
     <<"n">>, <<"r">>, <<"t">>, <<"x">>, <<"q">>}

EscapedTexts == {Flatten(tokens) : tokens \in StringsUpTo(EscapedTokens, MaxTermLen)}

\* closeEvent, lines 572-574: the terminator text as it is stored again
persist_terminator(text) ==
    LET decoded == decode_terminator(text)
    IN  IF decoded.ok
        THEN [ok |-> TRUE, value |-> encode_terminator(decoded.value)]
        ELSE [ok |-> FALSE, value |-> <<>>]

\* The stored text of arg after one closeEvent and after a second one.
TerminatorPersist ==
    /\ op = "init"
    /\ arg \in EscapedTexts
    /\ LET first == persist_terminator(arg)
       IN  result' = [first |-> first,
                      second |-> IF first.ok THEN persist_terminator(first.value)
                                 ELSE first]
    /\ op' = "persist_terminator"
    /\ UNCHANGED <<arg, trace>>
    /\ UNCHANGED OutsideText

\* The characters of the responses parse_temperature is given on its own.
ResponseChars == {"1", "-", "+", ".", "e", "T", " "}

ResponseTexts == StringsUpTo(ResponseChars, MaxRespLen)

\* parse_temperature(arg)
ParseTemperature ==
    /\ op = "init"
    /\ arg \in ResponseTexts
    /\ result' = parse_temperature(arg)
    /\ op' = "parse_temperature"
    /\ UNCHANGED <<arg, trace>>
    /\ UNCHANGED OutsideText

\* A text function is about to be called with the text arg.
InitText ==
    /\ IdleWindow
    /\ max_points = 0
    /\ read_period = PeriodSeconds
    /\ interval = 0
    /\ deadline = NoneVal
    /\ in_buffer = <<>>
    /\ arg \in TerminatorTexts \cup EscapedTexts \cup ResponseTexts
    /\ result = NoCall

NextText ==
    \/ TerminatorRoundTrip
    \/ TerminatorDecode
    \/ TerminatorPersist
    \/ ParseTemperature

SpecText == InitText /\ [][NextText]_vars

\* ------------------------------------------- the connections on their own
\* One SerialConnection or EthernetConnection object whose open, close,
\* is_open and query are called in any order.  arg holds the terminator the
\* queries are given and what the instrument does after a request: the
\* chunks of bytes it sends (one chunk per recv of the socket) and whether
\* it then closes the connection ("eof") or stays silent until the timeout
\* of the socket or port expires ("timeout").
Bytes == {"1", ";", "LF"}
Terminators == {<<>>, <<"LF">>, <<";">>, <<";", "LF">>}

\* The ways to cut a byte string into non-empty chunks.
RECURSIVE Chunkings(_)
Chunkings(bytes) ==
    IF bytes = <<>> THEN {<<>>}
    ELSE UNION {{<<SubSeq(bytes, 1, k)>> \o rest :
                    rest \in Chunkings(SubSeq(bytes, k + 1, Len(bytes)))} :
                k \in 1..Len(bytes)}

Scripts == UNION {Chunkings(bytes) : bytes \in StringsUpTo(Bytes, MaxBytes)}

\* Position of the last byte of the first occurrence of term in data, 0
\* when term does not occur (term is not empty).
FirstEnd(data, term) ==
    LET ends == {i \in Len(term)..Len(data) :
                    SubSeq(data, i - Len(term) + 1, i) = term}
    IN  IF ends = {} THEN 0 ELSE CHOOSE i \in ends : \A o \in ends : i <= o

\* term_bytes in data
Contains(data, term) == FirstEnd(data, term) # 0

ContainsInChunk(data, chunk, term) == Contains(chunk, term)

\* _recv_until, line 117: the test made after each chunk
TerminatorSeen(data, chunk, term) == Contains(data, term)

\* _recv_until, lines 112-118: the loop, given the bytes read so far and the
\* number of recv calls made; chunks is what the peer still sends.
RECURSIVE recv_loop(_, _, _, _, _)
recv_loop(chunks, then, term, data, reads) ==
    IF chunks = <<>>
    THEN (IF then = "eof"
          THEN [raised |-> FALSE, error |-> "", data |-> data, reads |-> reads + 1]
          ELSE [raised |-> TRUE, error |-> "timeout", data |-> data,
                reads |-> reads + 1])
    ELSE IF TerminatorSeen(data \o Head(chunks), Head(chunks), term)
    THEN [raised |-> FALSE, error |-> "", data |-> data \o Head(chunks),
          reads |-> reads + 1]
    ELSE recv_loop(Tail(chunks), then, term, data \o Head(chunks), reads + 1)

\* _recv_until: an empty terminator stands for a line feed.
recv_until(chunks, then, terminator) ==
    recv_loop(chunks, then, IF terminator = <<>> THEN <<"LF">> ELSE terminator,
              <<>>, 0)

\* Serial.read_until(expected) under the port's timeout: the bytes up to and
\* including the first expected sequence, or, when the timeout expires
\* first, the bytes received until then; it does not raise.
read_until(stream, expected) ==
    IF Contains(stream, expected)
    THEN SubSeq(stream, 1, FirstEnd(stream, expected)) ELSE stream

\* A query that talks to the port whenever a Serial object exists.
serial_query_on_any_port(h, a) ==
    IF h = "none"
    THEN [raised |-> TRUE, error |-> "RuntimeError", value |-> <<>>, io |-> <<>>]
    ELSE [raised |-> FALSE, error |-> "",
          value |-> strip(read_until(Flatten(a.chunks),
                          IF a.terminator = <<>> THEN <<"LF">> ELSE a.terminator)),
          io |-> <<"reset_input_buffer", "write",
                   IF a.terminator = <<>> THEN "readline" ELSE "read_until">>]

\* SerialConnection.query: what it returns or raises and the calls it made
\* on the port, in order.
serial_query(h, a) ==
    IF h = "none"
    THEN [raised |-> TRUE, error |-> "RuntimeError", value |-> <<>>, io |-> <<>>]
    ELSE IF h = "closed"
    THEN [raised |-> TRUE, error |-> "PortNotOpenError", value |-> <<>>,
          io |-> <<>>]
    ELSE [raised |-> FALSE, error |-> "",
          value |-> strip(read_until(Flatten(a.chunks),
                          IF a.terminator = <<>> THEN <<"LF">> ELSE a.terminator)),
          io |-> <<"reset_input_buffer", "write",
                   IF a.terminator = <<>> THEN "readline" ELSE "read_until">>]

\* EthernetConnection.query
ethernet_query(h, a) ==
    IF h # "open"
    THEN [raised |-> TRUE, error |-> "RuntimeError", value |-> <<>>, io |-> <<>>]
    ELSE LET r == recv_until(a.chunks, a.then, a.terminator)
         IN  [raised |-> r.raised, error |-> r.error,
              value |-> IF r.raised THEN <<>> ELSE strip(r.data),
              io |-> <<"sendall">> \o [i \in 1..r.reads |-> "recv"]]

\* What the connection objects never touch.
OutsideConnection ==
    <<gui, reading_active, timerActive, tickDue, logger, log_handle, files,
      start_time, time_data, temp_data, max_points, read_period, interval,
      deadline, in_alarm, last_email_ts, status, mono, wall, inflight, sends,
      accepted, last_call, stopped>>

Returned(value) == [raised |-> FALSE, error |-> "", value |-> value]
Raised(error) == [raised |-> TRUE, error |-> error, value |-> <<>>]

\* open(): nothing to do on an open connection; otherwise the port or
\* socket is created, which can fail.
ConnOpen(ok) ==
    /\ handle' = (IF handle = "open" \/ ok THEN "open" ELSE handle)
    /\ result' = (IF handle = "open" \/ ok THEN Returned(<<>>) ELSE Raised("OSError"))
    /\ in_buffer' = (IF handle = "open" THEN in_buffer ELSE <<>>)
    /\ op' = "open"
    /\ trace' = (IF handle = "open" THEN <<>> ELSE <<"connect">>)
    /\ UNCHANGED <<connection, arg>>
    /\ UNCHANGED OutsideConnection

\* close(): the port or socket is closed only when there is an open one.
ConnClose(closeOk, leftOpen) ==
    /\ handle' = (IF handle # "open" THEN handle
                  ELSE IF closeOk THEN HandleAfterClose
                  ELSE HandleAfterFailedClose(leftOpen))
    /\ result' = (IF handle # "open" \/ closeOk THEN Returned(<<>>)
                  ELSE Raised("OSError"))
    /\ in_buffer' = (IF handle = "open" THEN <<>> ELSE in_buffer)
    /\ op' = "close"
    /\ trace' = (IF handle = "open" THEN <<"close">> ELSE <<>>)
    /\ UNCHANGED <<connection, arg>>
    /\ UNCHANGED OutsideConnection

\* query(command, arg.terminator), answered as arg says, with nothing waiting
\* in the input buffer when it is called
ConnQuery ==
    /\ LET r == IF connection = "serial" THEN serial_query(handle, arg)
                ELSE ethernet_query(handle, arg)
       IN  /\ result' = [raised |-> r.raised, error |-> r.error, value |-> r.value]
           /\ trace' = r.io
    /\ op' = "query"
    /\ UNCHANGED <<connection, handle, arg, in_buffer>>
    /\ UNCHANGED OutsideConnection

\* _make_connection: a new connection object of either kind
InitTransport ==
    /\ gui = "idle"
    /\ reading_active = FALSE
    /\ timerActive = FALSE
    /\ tickDue = FALSE
    /\ connection \in ConnectionTypes
    /\ handle = "none"
    /\ logger = "None"
    /\ log_handle = NoneVal
    /\ files = [n \in Seconds |-> <<>>]
    /\ start_time = NoneVal
    /\ time_data = <<>>
    /\ temp_data = <<>>
    /\ max_points = 0
    /\ read_period = PeriodSeconds
    /\ interval = 0
    /\ deadline = NoneVal
    /\ in_buffer = <<>>
    /\ in_alarm = FALSE
    /\ last_email_ts = NoneVal
    /\ status = ""
    /\ mono = 1
    /\ wall = 1
    /\ inflight = 0
    /\ sends = 0
    /\ accepted = <<>>
    /\ last_call = NoCall
    /\ arg \in [terminator : Terminators, chunks : Scripts, then : {"eof", "timeout"}]
    /\ connection = "serial" => (arg.then = "timeout" /\ Len(arg.chunks) <= 1)
    /\ result = NoCall
    /\ op = "init"
    /\ trace = <<>>
    /\ stopped = FALSE

NextTransport ==
    \/ \E ok \in BOOLEAN : ConnOpen(ok)
    \/ \E closeOk \in BOOLEAN, leftOpen \in BOOLEAN : ConnClose(closeOk, leftOpen)
    \/ ConnQuery

SpecTransport == InitTransport /\ [][NextTransport]_vars

\* ------------------------------------------------ one query after another
\* The connections with the bytes that wait in the input buffer of the port
\* or socket from one query to the next: what a query did not read, and the
\* reply to a query that timed out, which arrives after the query has ended.
\* The digit of such a late reply is written "2"; the instrument's replies
\* in arg hold the digit "1" only.

\* SerialConnection.query with bytes waiting: reset_input_buffer() discards
\* them; read_until leaves what follows the terminator in the buffer.
serial_query_waiting(h, a, waiting) ==
    IF h # "open"
    THEN [raised |-> TRUE, error |-> serial_query(h, a).error, value |-> <<>>,
          io |-> <<>>, left |-> waiting]
    ELSE LET stream == Flatten(a.chunks)
             data == read_until(stream,
                        IF a.terminator = <<>> THEN <<"LF">> ELSE a.terminator)
         IN  [raised |-> FALSE, error |-> "", value |-> strip(data),
              io |-> serial_query(h, a).io,
              left |-> SubSeq(stream, Len(data) + 1, Len(stream))]

\* EthernetConnection.query with bytes waiting: sendall, then _recv_until,
\* whose first recv returns the bytes that wait; the chunks it has not read
\* stay in the buffer.
ethernet_query_waiting(h, a, waiting) ==
    IF h # "open"
    THEN [raised |-> TRUE, error |-> "RuntimeError", value |-> <<>>,
          io |-> <<>>, left |-> waiting]
    ELSE LET available == (IF waiting = <<>> THEN <<>> ELSE <<waiting>>) \o a.chunks
             r == recv_until(available, a.then, a.terminator)
         IN  [raised |-> r.raised, error |-> r.error,
              value |-> IF r.raised THEN <<>> ELSE strip(r.data),
              io |-> <<"sendall">> \o [i \in 1..r.reads |-> "recv"],
              left |-> Flatten(SubSeq(available, r.reads + 1, Len(available)))]

\* query(command, arg.terminator) on the connection as the last call left it
ConnQueryWaiting ==
    /\ LET r == IF connection = "serial"
                THEN serial_query_waiting(handle, arg, in_buffer)
                ELSE ethernet_query_waiting(handle, arg, in_buffer)
       IN  /\ result' = [raised |-> r.raised, error |-> r.error, value |-> r.value]
           /\ trace' = r.io
           /\ in_buffer' = r.left
    /\ op' = "query"
    /\ UNCHANGED <<connection, handle, arg>>
    /\ UNCHANGED OutsideConnection

\* The query ended when the timeout expired, the terminator not received.
QueryTimedOut ==
    /\ op = "query"
    /\ handle = "open"
    /\ arg.then = "timeout"
    /\ ~Contains(Flatten(arg.chunks),
                 IF arg.terminator = <<>> THEN <<"LF">> ELSE arg.terminator)

\* The instrument's reply to the query that timed out arrives.
LateReply ==
    /\ QueryTimedOut
    /\ in_buffer = <<>>
    /\ in_buffer' = <<"2">> \o (IF arg.terminator = <<>> THEN <<"LF">>
                                ELSE arg.terminator)
    /\ op' = "late_reply"
    /\ trace' = <<>>
    /\ UNCHANGED <<connection, handle, arg, result>>
    /\ UNCHANGED OutsideConnection

NextPairing ==
    \/ \E ok \in BOOLEAN : ConnOpen(ok)
    \/ \E closeOk \in BOOLEAN, leftOpen \in BOOLEAN : ConnClose(closeOk, leftOpen)
    \/ ConnQueryWaiting
    \/ LateReply

SpecPairing == InitTransport /\ [][NextPairing]_vars

\* ---------------------------------------------- the buffers as time passes
\* The runs of samples with time.monotonic() moving between the polls while
\* datetime.now() stays within one second, so that the samples of a session
\* differ in their elapsed times as well as in their readings.
MonotonicStep ==
    /\ mono < MaxTime
    /\ mono' = mono + 1
    /\ op' = "monotonic"
    /\ trace' = <<>>
    /\ last_call' = NoCall
    /\ UNCHANGED <<gui, reading_active, timerActive, tickDue, connection, handle,
                   logger, log_handle, files, start_time, time_data, temp_data,
                   max_points, read_period, interval, deadline, in_buffer,
                   in_alarm,
                   last_email_ts, status, wall, inflight, sends, accepted, arg,
                   result, stopped>>

NextBuffer ==
    \/ StartReading("ethernet", TRUE, TRUE)
    \/ TimerExpire
    \/ TimerTick
    \/ \E outcome \in RingOutcomes, settings \in RingSettings :
           QueryReturn(outcome, TRUE, settings)
    \/ StopReading(TRUE, TRUE, TRUE)
    \/ MonotonicStep

SpecBuffer == InitRing /\ [][NextBuffer]_vars

\* ------------------------------------------------ the read timer's period
\* read_timer and the period widget on their own: reading is started and
\* stopped, the period is changed, the clock moves in seconds and the timer's
\* timeout is delivered.  A poll is one step here ("poll" in trace).
Periods == {1, 2, 3}

\* What these runs leave alone.
OutsideTimer ==
    <<gui, connection, handle, logger, log_handle, files, start_time, time_data,
      temp_data, max_points, in_buffer, in_alarm, last_email_ts, status, wall,
      inflight, sends, accepted, last_call, arg, result, stopped>>

deadline_from_last_tick(now, last_deadline, last_interval, period) ==
    last_deadline - last_interval + period

\* QTimer.setInterval / QTimer.start: the timer is started anew and expires
\* one period from now.
deadline_after_restart(now, last_deadline, last_interval, period) == now + period

\* _start_reading, lines 486-498: the timer is started with the period of the
\* widget and one read is primed.
TimerStart ==
    /\ ~reading_active
    /\ reading_active' = TRUE
    /\ interval' = read_period
    /\ timerActive' = TRUE
    /\ tickDue' = FALSE
    /\ deadline' = deadline_after_restart(mono, deadline, interval, read_period)
    /\ op' = "start"
    /\ trace' = <<"timer_start", "poll">>
    /\ UNCHANGED <<read_period, mono>>
    /\ UNCHANGED OutsideTimer

\* _stop_reading, lines 501-503
TimerStop ==
    /\ reading_active
    /\ reading_active' = FALSE
    /\ timerActive' = FALSE
    /\ tickDue' = FALSE
    /\ deadline' = NoneVal
    /\ op' = "stop"
    /\ trace' = <<"timer_stop">>
    /\ UNCHANGED <<read_period, interval, mono>>
    /\ UNCHANGED OutsideTimer

\* read_period.valueChanged -> _update_timer_interval: while reading, the
\* timer takes the new interval, and setInterval starts a running timer anew.
UpdateTimerInterval(period) ==
    /\ period # read_period
    /\ read_period' = period
    /\ interval' = (IF reading_active THEN period ELSE interval)
    /\ deadline' = (IF reading_active /\ timerActive
                    THEN deadline_after_restart(mono, deadline, interval, period)
                    ELSE deadline)
    /\ tickDue' = (IF reading_active /\ timerActive THEN FALSE ELSE tickDue)
    /\ op' = "period"
    /\ trace' = <<>>
    /\ UNCHANGED <<reading_active, timerActive, mono>>
    /\ UNCHANGED OutsideTimer

\* A second passes; a running timer whose time has come expires and is set
\* for one interval later.
TimerClock ==
    /\ mono < MaxTimerTime
    /\ mono' = mono + 1
    /\ LET expires == timerActive /\ mono' >= deadline
       IN  /\ tickDue' = (tickDue \/ expires)
           /\ deadline' = (IF expires THEN deadline + interval ELSE deadline)
    /\ op' = "clock"
    /\ trace' = <<>>
    /\ UNCHANGED <<reading_active, timerActive, read_period, interval>>
    /\ UNCHANGED OutsideTimer

\* read_timer.timeout -> _poll_temperature
TimerTimeout ==
    /\ timerActive /\ tickDue
    /\ tickDue' = FALSE
    /\ op' = "tick"
    /\ trace' = <<"poll">>
    /\ UNCHANGED <<reading_active, timerActive, read_period, interval, deadline,
                   mono>>
    /\ UNCHANGED OutsideTimer

\* MainWindow.__init__ with settings["readout"]["period_s"] as configured
InitTimer ==
    /\ IdleWindow
    /\ max_points = 0
    /\ read_period \in Periods
    /\ interval = 0
    /\ deadline = NoneVal
    /\ in_buffer = <<>>
    /\ arg = NoCall
    /\ result = NoCall

NextTimer ==
    \/ TimerStart
    \/ TimerStop
    \/ \E period \in Periods : UpdateTimerInterval(period)
    \/ TimerClock
    \/ TimerTimeout

SpecTimer == InitTimer /\ [][NextTimer]_vars

\* ------------------------------------------------------------------ claims
Range(f) == {f[i] : i \in DOMAIN f}

\* The session state a handler can touch, apart from the clocks.
SessionState ==
    <<reading_active, timerActive, tickDue, connection, handle, logger, log_handle,
      files, start_time, time_data, temp_data, in_alarm, last_email_ts, status>>

\* C1: polls never overlap: at most one connection.query of the session is
\* in progress in every reachable state, the primed read of _start_reading
\* included, and also when the timer expires while a query is still blocked.
PollsNeverOverlap == inflight <= 1

\* C1 witness: the timer has expired while a query is outstanding.
TickPendingDuringQuery == gui = "query" /\ inflight = 1 /\ tickDue /\ timerActive

\* C2: the transport of the session is open exactly when the session is
\* polling.
TransportOpenIffPolling == (handle = "open") <=> reading_active

\* C3: when connection.open() fails in _start_reading the session stays
\* idle, the failure is shown, no timer runs, no log file is created, the
\* buffers and the alarm state are unchanged; and while the session is idle
\* no step other than a successful start issues a query.
OpenFailureLeavesIdle ==
    [][/\ op' = "start_open_failed" =>
            /\ ~reading_active' /\ ~timerActive' /\ ~tickDue'
            /\ status' = "Failed to open connection"
            /\ gui' = "idle" /\ inflight' = 0
            /\ UNCHANGED <<files, logger, log_handle, time_data, temp_data,
                           start_time, in_alarm, last_email_ts>>
       /\ (~reading_active /\ op' # "start") =>
            (~reading_active' /\ gui' = "idle" /\ inflight' = 0 /\ files' = files)
      ]_vars

\* C3 witness: an open failure after an earlier session left samples, a log
\* file and a notification time stamp behind.
OpenFailedAfterSession ==
    /\ op = "start_open_failed"
    /\ time_data # <<>>
    /\ \E n \in Seconds : files[n] # <<>>

\* C4: a poll whose query or parse fails leaves the buffers, the log files
\* and the alarm state unchanged, and the session keeps polling: the timer
\* stays active and the connection stays in place for the next tick.
PollFailureSkipsCycle ==
    [][op' = "poll_failed" =>
            /\ UNCHANGED <<time_data, temp_data, files, in_alarm, last_email_ts,
                           logger, log_handle>>
            /\ reading_active' /\ timerActive'
            /\ connection' # "None" /\ handle' = "open"
      ]_vars

\* C4 witness: a failed poll in a session that holds a sample and an alarm.
PollFailedWithHistory ==
    op = "poll_failed" /\ time_data # <<>> /\ in_alarm /\ last_email_ts # NoneVal

\* C5: every poll that yields a temperature buffers the sample, then logs
\* it, then evaluates the alarm once, also when the log write fails.
SampleBufferedLoggedEvaluated ==
    op \in {"poll_sample", "poll_log_raised"} =>
        /\ Len(trace) >= 3
        /\ trace[1] = "buffer"
        /\ trace[2] \in {"log", "log_raised"}
        /\ trace[3] = "evaluate"
        /\ Cardinality({i \in DOMAIN trace : trace[i] = "evaluate"}) = 1

\* C6: a failing log write does not stop the polling loop: the session
\* stays active with its timer and connection, and every tick delivered
\* afterwards issues a query.
LogFailureKeepsPolling ==
    [][/\ op' = "poll_log_raised" =>
            /\ reading_active' /\ timerActive'
            /\ connection' # "None" /\ handle' = "open"
            /\ gui' = "idle"
       /\ op' = "tick" => (gui' = "query" /\ inflight' = 1)
      ]_vars

\* C6 witness: the log write has failed and the timer is still running.
LogWriteFailedWhilePolling ==
    op = "poll_log_raised" /\ reading_active /\ timerActive

\* C7: after _stop_reading on a polling session the timer is stopped, the
\* connection and the logger are closed and released, the alarm state is
\* reset and the session is idle.
StopReleasesEverything ==
    op \in {"stop", "stop_connection_close_raised", "stop_logger_close_raised"} =>
        /\ ~reading_active /\ ~timerActive /\ ~tickDue
        /\ connection = "None" /\ handle # "open"
        /\ logger = "None" /\ log_handle = NoneVal
        /\ ~in_alarm /\ last_email_ts = NoneVal

\* C8: once _stop_reading has returned, and until _start_reading starts a
\* session again, no query is issued, no log row is written and the alarm is
\* not evaluated, also when a timer expiry was pending at the stop.
NoActivityAfterStop ==
    [][(stopped /\ stopped') =>
            /\ gui' = "idle" /\ inflight' = 0
            /\ files' = files
            /\ Range(trace') \cap {"buffer", "log", "log_raised", "evaluate"} = {}
            /\ UNCHANGED <<time_data, temp_data>>
      ]_vars

\* C8 witness: the stop cancelled an expiry that was not delivered yet.
StoppedWithTickPending ==
    stopped /\ trace # <<>> /\ trace[1] = "timer_stop_pending"

\* C9: _stop_reading on an idle session changes nothing.
StopIdleIsNoop ==
    [][op' = "stop_idle" => UNCHANGED SessionState]_vars

\* C9 witness: a second stop right after a stop.
StoppedTwice == op = "stop_idle" /\ stopped

\* C10: when connection.close() fails in _stop_reading the error is not
\* propagated: the logger is closed, the alarm state is reset and the
\* session is idle with no resource held.
StopSurvivesCloseFailure ==
    op = "stop_connection_close_raised" =>
        /\ ~reading_active /\ ~timerActive
        /\ connection = "None"
        /\ logger = "None" /\ log_handle = NoneVal
        /\ ~in_alarm /\ last_email_ts = NoneVal
        /\ "connection_close_raised" \notin Range(trace)

\* C11: right after a successful _start_reading that follows a
\* _stop_reading, nothing of the earlier session is left in memory: the
\* buffers are empty, elapsed time counts from this start, the alarm state
\* is cleared, and the connection and the logger are fresh and open.
RestartStartsClean ==
    [][(stopped /\ op' = "start") =>
            /\ time_data' = <<>> /\ temp_data' = <<>>
            /\ start_time' = mono'
            /\ ~in_alarm' /\ last_email_ts' = NoneVal
            /\ connection' # "None" /\ handle' = "open"
            /\ logger' = "obj" /\ files'[log_handle'] = <<Header>>
      ]_vars

\* The alarm condition of a call, as the settings and the reading define it.
CallInAlarm(c) ==
    \/ c.settings.low_enabled /\ c.temperature < c.settings.low_threshold
    \/ c.settings.high_enabled /\ c.temperature > c.settings.high_threshold

\* The shortest time between two notifications under the settings of a call.
CallMinInterval(c) ==
    (IF c.settings.email_min_interval_min >= 1
     THEN c.settings.email_min_interval_min ELSE 1) * SecondsPerMinute

\* C12: a call of evaluate starts a notification exactly when the reading is
\* in alarm with alarms and email enabled, and either no notification was
\* sent since the last reset or at least max(1, email_min_interval_min) * 60
\* seconds have passed on the clock since the last one; the time of the
\* last notification then becomes the time of the call.
NotificationsDebounced ==
    [][op' = "evaluate" =>
          LET c == last_call'
              wanted == c.settings.enabled /\ CallInAlarm(c)
                            /\ c.settings.email_enabled /\ c.email_config
              due == last_email_ts = NoneVal
                        \/ c.now - last_email_ts >= CallMinInterval(c)
          IN  /\ (sends' = sends + 1) = (wanted /\ due)
              /\ (sends' = sends) = ~(wanted /\ due)
              /\ ("send" \in Range(trace')) = (wanted /\ due)
              /\ (wanted /\ due) => last_email_ts' = c.now
      ]_vars

\* C12 witness: with an interval of one minute a notification went out at
\* second 0, none at second 30, and the second one goes out at second 61.
SecondNotificationAfterInterval ==
    /\ op = "evaluate" /\ "send" \in Range(trace)
    /\ last_call.settings.email_min_interval_min = 1
    /\ last_call.now = 61 /\ last_email_ts = 61 /\ sends = 2

\* C13: a call of evaluate with settings.enabled false leaves the alarm flag
\* false and does nothing else: no beep, no notification, and the time of
\* the last notification stays as it was.
DisabledEvaluateOnlyClearsAlarm ==
    [][(op' = "evaluate" /\ ~last_call'.settings.enabled) =>
            /\ ~in_alarm'
            /\ last_email_ts' = last_email_ts
            /\ sends' = sends
            /\ trace' = <<"evaluate">>
            /\ UNCHANGED OutsideAlarm
      ]_vars

\* C13 witness: alarms are switched off at a reading that would beep and
\* notify, after a notification has been sent.
DisabledWhileReadingOutOfRange ==
    /\ op = "evaluate" /\ ~last_call.settings.enabled
    /\ CallInAlarm(last_call)
    /\ last_call.settings.beep_enabled /\ last_call.settings.email_enabled
    /\ last_email_ts # NoneVal
    /\ last_call.now - last_email_ts >= CallMinInterval(last_call)

\* C14: after a call of evaluate with settings.enabled true the alarm flag
\* is (low_enabled and temperature < low_threshold) or (high_enabled and
\* temperature > high_threshold), both comparisons strict, whatever the
\* order of the two thresholds.
AlarmFlagIsThresholdTest ==
    [][(op' = "evaluate" /\ last_call'.settings.enabled) =>
            in_alarm' = CallInAlarm(last_call')
      ]_vars

\* C14 witness: a reading equal to the low threshold, which lies above the
\* high threshold, is not an alarm when only the low alarm is on.
ReadingAtLowThreshold ==
    /\ op = "evaluate" /\ last_call.settings.enabled
    /\ last_call.settings.low_enabled /\ ~last_call.settings.high_enabled
    /\ last_call.temperature = last_call.settings.low_threshold
    /\ last_call.settings.low_threshold > last_call.settings.high_threshold
    /\ ~in_alarm

\* C15: the time of the last notification, once set, never decreases and is
\* never unset by anything but reset, whatever the readings, the settings
\* and the clock do, a clock that is set back included.
LastNotificationTimeMonotone ==
    [][(op' # "reset" /\ last_email_ts # NoneVal) =>
            /\ last_email_ts' # NoneVal
            /\ last_email_ts' >= last_email_ts
      ]_vars

\* C15 witness: evaluate is called in alarm with email enabled while the
\* clock shows a time before the last notification.
EvaluateBeforeLastNotification ==
    /\ op = "evaluate" /\ last_call.settings.enabled /\ CallInAlarm(last_call)
    /\ last_call.settings.email_enabled
    /\ last_email_ts # NoneVal
    /\ last_email_ts - last_call.now >= CallMinInterval(last_call)

\* C16: sending a notification never holds up polling: the poll that starts
\* a send runs to its end without waiting for it, a timer tick delivered
\* while sends are running starts its query all the same, and a send that
\* ends or fails touches nothing of the session.
SendNeverBlocksPolling ==
    [][/\ (op' = "poll_sample" /\ sends' > sends) => gui' = "idle"
       /\ (op' = "tick" /\ sends > 0) =>
              (gui' = "query" /\ inflight' = 1 /\ sends' = sends)
       /\ op' \in {"send_done", "send_failed"} =>
              (UNCHANGED SessionState /\ UNCHANGED <<gui, inflight>>)
      ]_vars

\* C16 witness: a tick polls while two sends are running, the second of
\* them started while the first had not ended.
TickWhileTwoSendsRunning == op = "tick" /\ gui = "query" /\ sends = 2

\* C17: every _stop_reading of a reading session resets the alarm manager,
\* so the first evaluation of a session that is in alarm with email enabled
\* starts a notification, however recent the last one of the session before.
FirstAlarmOfSessionNotifies ==
    /\ op \in {"stop", "stop_connection_close_raised", "stop_logger_close_raised"}
          => "alarm_reset" \in Range(trace)
    /\ (/\ op = "poll_sample" /\ Len(accepted) = 1
        /\ last_call.settings.enabled /\ CallInAlarm(last_call)
        /\ last_call.settings.email_enabled)
          => (last_email_ts = last_call.now /\ "send" \in Range(trace))

\* The rows DataLogger.log writes for the samples whose write went through.
RowsOf(samples) ==
    LET w == SelectSeq(samples, LAMBDA a : a.written)
    IN  [i \in 1..Len(w) |-> Row(w[i].ts, w[i].elapsed, w[i].temp)]

\* C18: after n samples in a session the two series hold the last
\* min(n, max_points) of them, in the order they came, when max_points > 0,
\* and all n of them when max_points = 0.
RingHoldsLastSamples ==
    LET n == Len(accepted)
        k == IF max_points > 0 /\ max_points < n THEN max_points ELSE n
    IN  /\ Len(time_data) = k
        /\ Len(temp_data) = k
        /\ \A i \in 1..k :
              /\ temp_data[i] = accepted[n - k + i].temp
              /\ time_data[i] = accepted[n - k + i].elapsed

\* C18 witness: four samples with max_points = 2, the last two of which
\* differ from each other and the first from the third.
RingDroppedOldSamples ==
    /\ max_points = 2 /\ Len(accepted) = 4
    /\ accepted[3].temp # accepted[4].temp
    /\ accepted[1].temp # accepted[3].temp

\* C19: while a session runs, its log file is the header followed by one row
\* for each sample whose write did not fail, in poll order: k + 1 lines
\* after k samples when no write failed, and no row for a failed poll.
LogHasOneRowPerSample ==
    (reading_active /\ log_handle # NoneVal) =>
        /\ files[log_handle] = <<Header>> \o RowsOf(accepted)
        /\ (\A i \in 1..Len(accepted) : accepted[i].written)
               => Len(files[log_handle]) = Len(accepted) + 1

\* C19 witness: three samples of the session are logged and the poll after
\* them has failed.
ThreeRowsAfterFailedPoll ==
    /\ reading_active /\ op = "poll_failed" /\ Len(accepted) = 3
    /\ \A i \in 1..3 : accepted[i].written
    /\ Len(files[log_handle]) = 4

\* C20: every successful _start_reading opens a log file that did not exist
\* before, and no step of a later session changes a file an earlier session
\* wrote, whenever the two sessions were started.
LaterSessionKeepsEarlierRows ==
    [][/\ op' = "start" =>
              (files[log_handle'] = <<>> /\ files'[log_handle'] = <<Header>>)
       /\ \A n \in Seconds : (files[n] # <<>> /\ n # log_handle) => files'[n] = files[n]
      ]_vars

\* C21: terminator escaping round-trips: decoding the encoded form of any
\* text made of CR, LF, TAB, backslashes and letters gives the text back.
TerminatorRoundTrips ==
    op = "terminator_round_trip" => result = [ok |-> TRUE, value |-> arg]

\* C21 witness: a backslash followed by the letter n and a line feed, whose
\* encoded form has three backslashes.
RoundTripOfBackslashLetter ==
    /\ op = "terminator_round_trip"
    /\ arg = <<"BS", "n", "LF">>
    /\ result.ok /\ result.value = arg

\* The grammar of C22, [-+]?digits[.digits][eE[-+]digits], as a predicate on
\* a text.
IsDigits(t) == t # <<>> /\ \A k \in DOMAIN t : t[k] \in Digits

IsUnsigned(t) ==
    \/ IsDigits(t)
    \/ \E p \in 2..(Len(t) - 1) :
          /\ t[p] = "."
          /\ IsDigits(SubSeq(t, 1, p - 1))
          /\ IsDigits(SubSeq(t, p + 1, Len(t)))

IsSigned(t, body(_)) ==
    body(t) \/ (Len(t) >= 2 /\ t[1] \in SignChars /\ body(Tail(t)))

IsNumber(t) ==
    \/ IsSigned(t, IsUnsigned)
    \/ \E p \in 2..(Len(t) - 1) :
          /\ t[p] \in ExpChars
          /\ IsSigned(SubSeq(t, 1, p - 1), IsUnsigned)
          /\ IsSigned(SubSeq(t, p + 1, Len(t)), IsDigits)

\* The longest text that is a number among those that start at the
\* leftmost position of t where a number starts.
FirstNumber(t) ==
    LET spans == {ij \in (1..Len(t)) \X (1..Len(t)) :
                     ij[1] <= ij[2] /\ IsNumber(SubSeq(t, ij[1], ij[2]))}
        first == CHOOSE ij \in spans :
                     \A o \in spans : ij[1] < o[1] \/ (ij[1] = o[1] /\ ij[2] >= o[2])
    IN  SubSeq(t, first[1], first[2])

\* C22: parse_temperature returns the value of the first number in the
\* text, whatever stands before and after it, and fails exactly when the
\* text holds no decimal digit (empty and blank texts included).
ParseFindsFirstNumber ==
    op = "parse_temperature" =>
        LET HasDigit == \E k \in DOMAIN arg : arg[k] \in Digits
        IN  /\ result.ok = HasDigit
            /\ HasDigit => result.value = float(FirstNumber(arg))

\* C22 witness: a number between a sign that belongs to no number and a dot
\* and a letter that continue none.
NumberBetweenOtherText ==
    /\ op = "parse_temperature"
    /\ arg = <<"-", "+", "1", ".", "e">>
    /\ result.ok /\ result.value = 1

\* C23: for both kinds of connection, a query on a connection that is not
\* open (never opened, or opened and then closed) fails with an error saying
\* so, and nothing was written to or read from the port or socket.
IsOpen == handle = "open"

NotOpenErrors == {"RuntimeError", "PortNotOpenError"}

QueryOnClosedFailsBeforeIO ==
    (op = "query" /\ ~IsOpen) =>
        /\ result.raised
        /\ result.error \in NotOpenErrors
        /\ trace = <<>>

\* A serial connection that was opened and closed again has refused a query.
QueryRefusedAfterClose ==
    /\ op = "query"
    /\ connection = "serial"
    /\ handle = "closed"
    /\ result.raised
    /\ trace = <<>>

\* C24: close() on a connection that is not open raises nothing and changes
\* nothing, and after every close() is_open() is false.
CloseIsIdempotent ==
    [][op' = "close" =>
          /\ ~IsOpen => (~result'.raised /\ handle' = handle /\ trace' = <<>>)
          /\ ~IsOpen']_vars

\* C25: a read that times out before the terminator has arrived ends the
\* query with an error, for both kinds of connection, so that no sample is
\* made of the bytes received before the timeout.
EffectiveTerminator == IF arg.terminator = <<>> THEN <<"LF">> ELSE arg.terminator

TimedOutBeforeTerminator ==
    /\ arg.then = "timeout"
    /\ ~Contains(Flatten(arg.chunks), EffectiveTerminator)

ReadTimeoutIsAnError ==
    (op = "query" /\ IsOpen /\ TimedOutBeforeTerminator) =>
        \/ result.raised
        \/ ~parse_temperature(result.value).ok

\* C28: for both kinds of connection and every terminator, the text a query
\* returns is the response without its terminator and without surrounding
\* whitespace: it does not end with the terminator and holds none of the
\* bytes that came after the terminator.
EndsWith(s, t) == Len(s) >= Len(t) /\ SubSeq(s, Len(s) - Len(t) + 1, Len(s)) = t

BeforeTerminator(stream, term) == SubSeq(stream, 1, FirstEnd(stream, term) - Len(term))

QueryReturnsTextBeforeTerminator ==
    (op = "query" /\ IsOpen /\ ~result.raised) =>
        /\ ~EndsWith(result.value, EffectiveTerminator)
        /\ Contains(Flatten(arg.chunks), EffectiveTerminator) =>
              result.value = strip(BeforeTerminator(Flatten(arg.chunks),
                                                    EffectiveTerminator))

\* C29: the receive loop of the network connection makes its last recv call
\* when the terminator first appears anywhere in the bytes accumulated so
\* far, also when it arrived split over two chunks, or when the peer closes
\* the connection, whichever comes first.
Accumulated(k) == Flatten(SubSeq(arg.chunks, 1, k))

LastRead ==
    LET seen == {k \in 1..Len(arg.chunks) : Contains(Accumulated(k), EffectiveTerminator)}
    IN  IF seen = {} THEN Len(arg.chunks) + 1
        ELSE CHOOSE k \in seen : \A o \in seen : k <= o

ReceiveStopsAtTerminatorOrClose ==
    (op = "query" /\ connection = "ethernet" /\ IsOpen) =>
        /\ trace = <<"sendall">> \o [i \in 1..LastRead |-> "recv"]
        /\ (LastRead > Len(arg.chunks) /\ arg.then = "eof") => ~result.raised

\* The terminator ;LF arrived in two chunks and a third chunk was not read.
SplitTerminatorEndsReceive ==
    /\ op = "query"
    /\ connection = "ethernet"
    /\ arg.terminator = <<";", "LF">>
    /\ arg.chunks = <<<<"1", ";">>, <<"LF">>, <<"1">>>>
    /\ trace = <<"sendall", "recv", "recv">>
    /\ result = Returned(<<"1", ";">>)

\* C26: the time of the last notification is set when the notification is
\* dispatched, while its sending is still under way, and a sending that fails
\* afterwards (also one the sender refuses for want of an SMTP host or of a
\* recipient) neither unsets it nor sends again: the next notification is
\* dispatched only once the minimum interval has passed since that time.
NotificationTimeSurvivesFailedSend ==
    [][/\ (op' = "evaluate" /\ "send" \in Range(trace')) =>
              /\ last_email_ts' = wall
              /\ sends' = sends + 1
              /\ last_email_ts # NoneVal =>
                     wall - last_email_ts >= CallMinInterval(last_call')
       /\ op' = "send_failed" =>
              /\ last_email_ts' = last_email_ts
              /\ in_alarm' = in_alarm
              /\ sends' = sends - 1]_vars

\* The sender refused the message of the notification dispatched in this
\* second; the time of that notification is still recorded.
RefusedSendKeepsNotificationTime ==
    /\ op = "send_failed"
    /\ trace = <<"ValueError">>
    /\ in_alarm
    /\ last_email_ts = wall
    /\ sends = 0

\* C27: the message names LOW whenever the low limit tripped, also when the
\* high limit tripped with it (low_threshold > high_threshold), and HIGH only
\* when the high limit alone tripped.
NotificationNamesLowFirst ==
    (op = "evaluate" /\ "send" \in Range(trace)) =>
        LET c == last_call
            low == c.settings.low_enabled /\ c.temperature < c.settings.low_threshold
            high == c.settings.high_enabled /\ c.temperature > c.settings.high_threshold
        IN  /\ ("LOW" \in Range(trace)) = low
            /\ ("HIGH" \in Range(trace)) = (high /\ ~low)

\* A reading below the low limit and above the high limit was notified as LOW.
BothLimitsTrippedNamesLow ==
    /\ op = "evaluate"
    /\ last_call.settings.low_enabled /\ last_call.settings.high_enabled
    /\ last_call.temperature < last_call.settings.low_threshold
    /\ last_call.temperature > last_call.settings.high_threshold
    /\ trace = <<"evaluate", "beep", "send", "LOW">>

\* C30: a successful Start performs the first poll itself, before any poll
\* the timer drives, and only after the connection is open, the logger is
\* started and the ring buffer is reset; the timer it started makes a poll
\* due each time the configured period has passed.
FirstPollInsideStart ==
    [][/\ op' = "start" =>
              /\ trace' = <<"open", "logger_start", "buffer_reset", "timer_start", "poll">>
              /\ handle' = "open"
              /\ logger' = "obj"
              /\ time_data' = <<>> /\ temp_data' = <<>>
              /\ gui' = "query" /\ inflight' = inflight + 1
              /\ timerActive' /\ ~tickDue'
       /\ op' = "tick" => op # "start"
       /\ (tickDue' /\ ~tickDue) => (timerActive /\ mono' = mono + PeriodSeconds)]_vars

\* Reading was started in the second second; its first poll is under way and
\* no timer tick is due.
StartedWithPollUnderWay ==
    /\ op = "start"
    /\ mono = 2
    /\ gui = "query"
    /\ inflight = 1
    /\ timerActive /\ ~tickDue
    /\ handle = "open"
    /\ time_data = <<>>

\* C31: a change of the period while reading applies from the next tick on
\* and not to the time already waited: the change polls nothing, leaves the
\* timer running and makes no tick due, and the next tick comes one new
\* period after the change; a change while idle starts no timer.
PeriodChangeAppliesFromNextTick ==
    [][op' = "period" =>
          /\ trace' = <<>>
          /\ reading_active' = reading_active
          /\ timerActive' = timerActive
          /\ reading_active =>
                 /\ ~tickDue'
                 /\ interval' = read_period'
                 /\ deadline' = mono + read_period'
          /\ ~reading_active =>
                 /\ ~timerActive'
                 /\ deadline' = NoneVal
                 /\ interval' = interval]_vars

\* The period was shortened to 1 s two seconds after reading was started:
\* no tick is due, the next one comes a second after the change.
PeriodShortenedWhileReading ==
    /\ op = "period"
    /\ reading_active /\ timerActive
    /\ read_period = 1 /\ interval = 1
    /\ mono = 3
    /\ deadline = 4
    /\ ~tickDue

\* C32: storing a terminator again is idempotent: for every escaped text t of
\* the escapes \r, \n, \t, \\ and letters, encode(decode(t)) can be decoded
\* and encode(decode(encode(decode(t)))) = encode(decode(t)).
PersistingTerminatorIsIdempotent ==
    op = "persist_terminator" =>
        /\ result.first.ok
        /\ result.second = result.first

\* The text \\n (an escaped backslash, then the letter n) is stored as it is,
\* the first time and the second.
EscapedBackslashLetterPersists ==
    /\ op = "persist_terminator"
    /\ arg = <<"BS", "BS", "n">>
    /\ result.first = [ok |-> TRUE, value |-> arg]
    /\ result.second = result.first

\* C33: _start_reading while the session is reading does nothing: no
\* connection is made or opened, no log file is opened, the buffers and the
\* start instant stay as they are and the timer is not started again.
StartWhileReadingChangesNothing ==
    [][op' = "start_noop" =>
          /\ reading_active /\ reading_active'
          /\ trace' = <<>>
          /\ UNCHANGED <<connection, handle>>
          /\ UNCHANGED <<logger, log_handle, files>>
          /\ UNCHANGED <<time_data, temp_data, start_time>>
          /\ UNCHANGED <<timerActive, tickDue, interval, deadline>>
          /\ UNCHANGED <<gui, inflight, accepted, in_alarm, last_email_ts>>]_vars

\* Start was pressed again a second into a session that holds a sample and
\* has a tick due: the sample, the start instant and the due tick are kept.
StartPressedWhileReading ==
    /\ op = "start_noop"
    /\ reading_active
    /\ time_data # <<>>
    /\ start_time < mono
    /\ timerActive /\ tickDue
    /\ handle = "open"

\* C34: in every state between two handlers the series of elapsed times and
\* the series of temperatures have the same length and their entries i are
\* the elapsed time and the reading of one sample, the samples held being
\* consecutive ones of the session; the elapsed times held are not negative
\* and never decrease along the series.
BufferSeriesStayPaired ==
    LET n == Len(time_data)
        k == Len(accepted) - n
    IN  /\ Len(temp_data) = n
        /\ k >= 0
        /\ \A i \in 1..n :
               /\ time_data[i] = accepted[k + i].elapsed
               /\ temp_data[i] = accepted[k + i].temp
               /\ time_data[i] >= 0
        /\ \A i \in 1..n : \A j \in i..n : time_data[i] <= time_data[j]

\* With max_points = 2 the first of three samples was dropped; the two held
\* were taken a second apart and read 2 and 1.
TwoSamplesHeldAfterEviction ==
    /\ max_points = 2
    /\ Len(accepted) = 3
    /\ time_data = <<0, 1>>
    /\ temp_data = <<2, 1>>

\* C35: for both kinds of connection the text a query returns is made only
\* of bytes the instrument sent in reply to that query: after a query that
\* timed out, the next query does not return the late reply to the earlier
\* one (whose digit is "2").
QueryReturnsOwnReplyOnly ==
    (op = "query" /\ ~result.raised) => "2" \notin Range(result.value)

====
